---- MODULE Spec2Model ----
(***************************************************************************)
(* Model of the buffered ingestion pipeline of sdk/mongo_logger.py:        *)
(* MongoHandler (emit, format_record, _worker, _flush_batch, close) and    *)
(* setup_logging; and of the query side of monitor/db.py: LogDatabase      *)
(* (get_logs, get_stats, get_error_trend, get_log_by_id) with the error    *)
(* trend grouping of monitor/app.py; and of the diagnosis of               *)
(* monitor/llm_analyzer.py: LLMAnalyzer (analyze_error and its two         *)
(* analyses).                                                              *)
(*                                                                         *)
(* Time is counted in ticks.  One tick is half of the worker's poll        *)
(* timeout (queue.get(timeout=0.1)), so PollInterval is 2 ticks; the       *)
(* flush interval and the join timeout of close() are kept in the same     *)
(* unit with their order (poll < flush interval <= join timeout).          *)
(*                                                                         *)
(* Timestamps are the strings the handler stores (isoformat() + "Z") and   *)
(* the strings the queries compare them with (isoformat()), compared as    *)
(* MongoDB compares strings.                                               *)
(***************************************************************************)
EXTENDS Integers, Sequences, FiniteSets, TLC

\* ------------------------------------------------------------------ bounds
NumProducers == 2
MaxRecords == 3
MaxTime == 3
MaxTimeTimed == 7
MaxHandlers == 3
MaxSec == 3
MaxListSec == 1
MaxDocs == 3
MaxListDocs == 2
MaxLimit == 2
MaxStatsCalls == 2
MaxLookups == 2

\* ----------------------------------------------------------- configuration
\* batch_size and flush_interval are constructor arguments of MongoHandler:
\* BatchSize is the batch_size of the handler of Spec and SpecStart,
\* BatchSizeTimed that of the handler of SpecTimed.
BatchSize == 2
BatchSizeTimed == 3
FlushInterval == 3
\* queue.get(timeout=0.1), in ticks.
PollInterval == 2
\* worker_thread.join(timeout=2.0), in ticks.
JoinTimeout == 3

\* get_logs(limit=100), scaled.
DefaultLimit == 1
\* timedelta(days=1) of get_error_trend, and the hour of dt.floor("h"), in seconds.
TrendWindow == 2
SecsPerHour == 2
\* The number of hexadecimal digits of an ObjectId string (24), scaled.
OidLen == 2

Producers == 1..NumProducers

VARIABLES
    now,            \* time.time(), in ticks
    queue,          \* self.queue: records put and not yet taken by the worker
    stop_event,     \* self.stop_event.is_set()
    batch_size,     \* self.batch_size, the constructor argument
    client,         \* self.client: "open", "none" (constructor failed) or "closed"
    batch,          \* _worker's local batch
    last_flush,     \* _worker's local last_flush
    wpc,            \* position of the worker thread
    getDeadline,    \* when the pending queue.get(timeout) gives up (0: no get pending)
    ppc,            \* position of each producer inside emit
    pseq,           \* number of records each producer has put
    cpc,            \* position of the thread that calls close()
    joinDeadline,   \* when the pending join(timeout) gives up (0: no join pending)
    join_timed_out, \* history: join returned although the worker was alive
    submitted,      \* history: the records put, in put order (with the time
                    \* of the put in the behaviours of SpecTimed)
    prompt,         \* TRUE in the behaviours of SpecTimed, FALSE elsewhere
    entered,        \* history: the log entries format_record built that were
                    \* put on the queue, in put order (behaviours of SpecFormat)
    flushCalls,     \* history: the batches handed to _flush_batch, in order
    inserts,        \* history: the calls of collection.insert_many, in order
    worker_threads, \* per handler instance, threads running its _worker
    collection,     \* the documents of the MongoDB collection, in insertion order
    connected,      \* LogDatabase.connected
    reply,          \* the last call of get_logs / get_error_trend that returned
    stats_run,      \* the get_stats call in progress: position, counts so far
    stats_calls,    \* history: the get_stats calls that returned, in order
    writes,         \* history: number of documents written to the collection
    lookups,        \* history: the get_log_by_id calls that returned
    reads,          \* history: number of store calls LogDatabase has issued
    analyzer        \* the LLMAnalyzer instance: its provider and its client

sinkVars == <<queue, stop_event, client, batch_size>>
workerVars == <<batch, last_flush, wpc, getDeadline>>
producerVars == <<ppc, pseq>>
closerVars == <<cpc, joinDeadline, join_timed_out>>
monitorVars ==
    <<collection, connected, reply, stats_run, stats_calls, writes, lookups, reads,
      analyzer>>
\* What emit's two halves, the worker and close() never write.
otherVars == <<prompt, entered, monitorVars>>
histVars == <<submitted, otherVars, flushCalls, inserts>>

vars == <<now, sinkVars, workerVars, producerVars, closerVars, histVars, worker_threads>>

\* ---------------------------------------------------------------- helpers
RECURSIVE Flatten(_)
Flatten(ss) == IF ss = <<>> THEN <<>> ELSE Head(ss) \o Flatten(Tail(ss))

RECURSIVE SumSeq(_, _)
SumSeq(f, n) == IF n = 0 THEN 0 ELSE f[n] + SumSeq(f, n - 1)

Range(s) == {s[i] : i \in 1..Len(s)}

\* Emit calls that have formatted a record (put or about to put).
Begun == SumSeq(pseq, NumProducers) + Cardinality({p \in Producers : ppc[p] = "formatted"})

\* --------------------------------------------------------------- timestamps
\* An instant is a whole second and a microsecond part; Micros holds zero and
\* one non-zero microsecond value (500000, written 5).
Micros == {0, 5}

Instants == [sec : 0..MaxSec, micro : Micros]

\* The characters "." and "Z" by their code points: MongoDB compares strings
\* code point by code point, and "." sorts before every digit and before "Z".
Dot == 46

Zed == 90

\* datetime.isoformat(): "YYYY-MM-DDTHH:MM:SS.ffffff", or "YYYY-MM-DDTHH:MM:SS"
\* when the microsecond part is 0.  A string is written as its sequence of
\* fields: the fixed-width part up to the seconds as the number of the second
\* (fixed width: string order is numeric order), then the characters after it.
IsoFormat(t) == IF t.micro = 0 THEN <<t.sec>> ELSE <<t.sec, Dot, t.micro>>

\* format_record: datetime.datetime.utcnow().isoformat() + "Z"
StoredTimestamp(t) == IsoFormat(t) \o <<Zed>>

\* String comparison a <= b as MongoDB's $gte / $lte / sort do it.
RECURSIVE StrLeq(_, _)
StrLeq(a, b) ==
    IF a = <<>> THEN TRUE
    ELSE IF b = <<>> THEN FALSE
    ELSE IF Head(a) < Head(b) THEN TRUE
    ELSE IF Head(a) > Head(b) THEN FALSE
    ELSE StrLeq(Tail(a), Tail(b))

\* pd.to_datetime of a stored timestamp: the instant the string denotes.
ToDatetime(s) ==
    [sec |-> s[1], micro |-> IF Len(s) >= 3 /\ s[2] = Dot THEN s[3] ELSE 0]

\* t <= u for instants (datetime comparison).
NotAfter(t, u) == t.sec < u.sec \/ (t.sec = u.sec /\ t.micro <= u.micro)

\* dt.floor("h"): the start of the hour of t, an hour being SecsPerHour seconds.
FloorHour(t) == t.sec - (t.sec % SecsPerHour)

\* utcnow() - timedelta(days=1), a day being TrendWindow seconds.
Yesterday(utcnow) == [utcnow EXCEPT !.sec = @ - TrendWindow]

\* ---------------------------------------------------------------- documents
Services == {"A", "B"}

Levels == {"ERROR", "INFO"}

\* Messages and search texts are strings of letters in two cases.
Messages == {<<"a", "b">>, <<"b">>}

Lower(c) == IF c = "A" THEN "a" ELSE IF c = "B" THEN "b" ELSE c

\* bson.ObjectId(s) accepts a string of 24 hexadecimal digits and raises
\* InvalidId for every other string; here an ObjectId has OidLen digits and
\* the alphabet is two hexadecimal digits and one other character.
HexDigits == <<"a", "b">>

IdChars == {"a", "b", "z"}

IdStrings == UNION {[1..n -> IdChars] : n \in 0..OidLen}

IsObjectIdString(s) == Len(s) = OidLen /\ \A i \in 1..Len(s) : s[i] \in Range(HexDigits)

\* The _id the store gives the i-th document inserted: distinct ObjectIds.
OidOf(i) ==
    [oid |-> [k \in 1..OidLen |->
                 HexDigits[(((i - 1) \div (2 ^ (OidLen - k))) % 2) + 1]]]

MakeDoc(i, f) ==
    [_id |-> OidOf(i), service_name |-> f.service_name, level |-> f.level,
     timestamp |-> f.timestamp, message |-> f.message]

\* The fields of the documents the handlers write.
DocFields(services, levels, instants, messages) ==
    [service_name : services, level : levels,
     timestamp : {StoredTimestamp(t) : t \in instants}, message : messages]

\* ----------------------------------------------------------------- get_logs
\* An optional argument (None or a value) is a sequence of length 0 or 1; for
\* the string arguments "" stands for both None and the empty string, which
\* the code treats alike (both are falsy).
Some(x) == <<x>>

\* Lines 65-86: the query dictionary; an absent key is <<>>.
BuildQuery(service, level, start_time, end_time, search_text) ==
    [service_name |-> IF service # "" /\ service # "All" THEN Some(service) ELSE <<>>,
     level        |-> IF level # "" /\ level # "All" THEN Some(level) ELSE <<>>,
     ts_gte       |-> IF start_time # <<>> THEN Some(IsoFormat(start_time[1])) ELSE <<>>,
     ts_lte       |-> IF end_time # <<>> THEN Some(IsoFormat(end_time[1])) ELSE <<>>,
     message      |-> IF search_text # <<>> THEN Some(search_text) ELSE <<>>]

\* {"$regex": pattern, "$options": "i"} for a pattern of plain letters: the
\* pattern occurs in the text, letter case ignored.
RegexSearchI(pattern, text) ==
    \E i \in 1..(Len(text) - Len(pattern) + 1) :
        \A k \in 1..Len(pattern) : Lower(text[i + k - 1]) = Lower(pattern[k])

\* A document matches a query dictionary: every key present holds.
Matches(doc, query) ==
    /\ query.service_name # <<>> => doc.service_name = query.service_name[1]
    /\ query.level # <<>> => doc.level = query.level[1]
    /\ query.ts_gte # <<>> => StrLeq(query.ts_gte[1], doc.timestamp)
    /\ query.ts_lte # <<>> => StrLeq(doc.timestamp, query.ts_lte[1])
    /\ query.message # <<>> => RegexSearchI(query.message[1], doc.message)

RECURSIVE Find(_, _)
Find(coll, query) ==
    IF coll = <<>> THEN <<>>
    ELSE (IF Matches(Head(coll), query) THEN <<Head(coll)>> ELSE <<>>)
         \o Find(Tail(coll), query)

\* sort("timestamp", -1): descending in string order.  Documents with equal
\* timestamps keep their insertion order.
RECURSIVE InsertDescending(_, _)
InsertDescending(d, s) ==
    IF s = <<>> THEN <<d>>
    ELSE IF StrLeq(d.timestamp, Head(s).timestamp)
         THEN <<Head(s)>> \o InsertDescending(d, Tail(s))
         ELSE <<d>> \o s

RECURSIVE SortDescending(_)
SortDescending(s) ==
    IF s = <<>> THEN <<>>
    ELSE InsertDescending(s[Len(s)], SortDescending(SubSeq(s, 1, Len(s) - 1)))

\* cursor.limit(n): the first n documents; a limit of 0 is no limit.
CursorLimit(s, n) == IF n = 0 \/ n >= Len(s) THEN s ELSE SubSeq(s, 1, n)

\* log["_id"] = str(log["_id"])
StrId(doc) == [doc EXCEPT !._id = doc._id.oid]

\* get_logs without its connected test.
GetLogsUnguarded(coll, conn, limit, service, level, start_time, end_time, search_text) ==
    LET query == BuildQuery(service, level, start_time, end_time, search_text)
        logs == CursorLimit(SortDescending(Find(coll, query)), limit)
    IN  [i \in 1..Len(logs) |-> StrId(logs[i])]

GetLogs(coll, conn, limit, service, level, start_time, end_time, search_text) ==
    IF ~conn THEN <<>>
    ELSE LET query == BuildQuery(service, level, start_time, end_time, search_text)
             logs == CursorLimit(SortDescending(Find(coll, query)), limit)
         IN  [i \in 1..Len(logs) |-> StrId(logs[i])]

\* ---------------------------------------------------------------- get_stats
\* collection.count_documents(filter): filter <<>> is {}, <<l>> is {"level": l}.
CountDocuments(coll, filter) ==
    Cardinality({i \in 1..Len(coll) : filter # <<>> => coll[i].level = filter[1]})

\* The $group pipeline turned into the dict service_counts.
ServiceCounts(coll) ==
    [s \in {coll[i].service_name : i \in 1..Len(coll)} |->
        Cardinality({i \in 1..Len(coll) : coll[i].service_name = s})]

\* The collection after a read (count_documents, aggregate, find).
AfterReadAudited(coll) ==
    Append(coll, MakeDoc(Len(coll) + 1,
                         [service_name |-> "monitor", level |-> "INFO",
                          timestamp |-> StoredTimestamp([sec |-> 0, micro |-> 0]),
                          message |-> <<>>]))

AfterRead(coll) == coll

StatsIdle == [pc |-> "idle", total_logs |-> 0, error_logs |-> 0, started |-> 0,
              store |-> <<>>]

\* ---------------------------------------------------------- get_error_trend
\* Lines 141-146: the ERROR documents whose timestamp string is >= the
\* isoformat of utcnow() - 1 day, projected on _id, timestamp, service_name.
RECURSIVE FindErrorsSince(_, _)
FindErrorsSince(coll, yesterday) ==
    IF coll = <<>> THEN <<>>
    ELSE (IF Head(coll).level = "ERROR" /\ StrLeq(yesterday, Head(coll).timestamp)
          THEN <<[_id |-> Head(coll)._id, timestamp |-> Head(coll).timestamp,
                  service_name |-> Head(coll).service_name]>>
          ELSE <<>>) \o FindErrorsSince(Tail(coll), yesterday)

GetErrorTrend(coll, conn, utcnow) ==
    IF ~conn THEN <<>> ELSE FindErrorsSince(coll, IsoFormat(Yesterday(utcnow)))

\* app.py, error trend tab: to_datetime, floor to the hour, then
\* groupby(["timestamp_hour", "service_name"]).size().
TrendKey(row) == <<FloorHour(ToDatetime(row.timestamp)), row.service_name>>

ErrorCounts(rows) ==
    [k \in {TrendKey(rows[i]) : i \in 1..Len(rows)} |->
        Cardinality({i \in 1..Len(rows) : TrendKey(rows[i]) = k})]

\* ------------------------------------------------------------ get_log_by_id
\* find_one({"_id": oid}): the first document with that _id, or None (<<>>).
FindOne(coll, oid) ==
    LET hits == {i \in 1..Len(coll) : coll[i]._id = oid} IN
    IF hits = {} THEN <<>>
    ELSE Some(coll[CHOOSE i \in hits : \A j \in hits : i <= j])

\* What get_log_by_id returns when its try body raises: line 44, return None.
OnLookupException == <<>>

\* Lines 39-44.  store_up: whether the store answers the find_one.
GetLogById(coll, conn, log_id, store_up) ==
    IF ~conn \/ log_id = <<>> THEN <<>>
    ELSE IF ~IsObjectIdString(log_id) THEN OnLookupException
    ELSE IF ~store_up THEN OnLookupException
    ELSE FindOne(coll, [oid |-> log_id])

NoReply == [op |-> "none"]

\* ------------------------------------------------------------- llm_analyzer
\* LLMAnalyzer.__init__(provider): with provider "deepseek" self.client is the
\* OpenAI client, or None when its constructor raised; with provider "mock"
\* the attribute client is never assigned ("unset") and never read.
Analyzers ==
    {[provider |-> "deepseek", client |-> c] : c \in {"open", "none"}}
        \cup {[provider |-> "mock", client |-> "unset"]}

\* llm_analyzer has not been imported: no LLMAnalyzer exists.
NoAnalyzer == [provider |-> "none", client |-> "unset"]

\* The log_entry dictionaries passed to analyze_error, by what the analyzer
\* reads of them: the value under "message" (absent, None, or a text with the
\* word zero, with the word timeout, or with neither) and the value under
\* "metadata" (absent, None, a dict without error_stack, a dict whose
\* error_stack mentions division by zero, a dict with another error_stack).
LogEntries ==
    [message : {"absent", "None", "zero", "timeout", "other"},
     metadata : {"absent", "None", "dict", "stack_zero", "stack_other"}]

\* What chat.completions.create does: it returns a response with a text, a
\* response whose message content is None, or it raises.
RemoteOutcomes == {"content", "no_content", "raises"}

\* The outcomes of a call: a string (written as its parts), the value None,
\* or an exception leaving the call.
Str(parts) == [kind |-> "str", text |-> parts]

NoneValue == [kind |-> "None", text |-> <<>>]

Raised(exc) == [kind |-> "raises", text |-> <<exc>>]

\* log_entry.get("metadata", {}).get("error_stack", default): the default of
\* the first get applies to an absent key only, so a None stored under
\* "metadata" is returned and its .get raises AttributeError.
GetErrorStack(log_entry) ==
    IF log_entry.metadata = "None" THEN Raised("AttributeError")
    ELSE IF log_entry.metadata = "stack_zero" THEN Str(<<"division by zero">>)
    ELSE IF log_entry.metadata = "stack_other" THEN Str(<<"traceback">>)
    ELSE Str(<<>>)

\* Lines 96-149: message lowered (None has no lower), the error stack, then
\* one of three templates chosen by keyword.
MockAnalysis(log_entry) ==
    IF log_entry.message = "None" THEN Raised("AttributeError")
    ELSE IF GetErrorStack(log_entry).kind = "raises" THEN GetErrorStack(log_entry)
    ELSE IF GetErrorStack(log_entry).text = <<"division by zero">>
            \/ log_entry.message = "zero"
         THEN Str(<<"report: ZeroDivisionError">>)
    ELSE IF log_entry.message = "timeout" THEN Str(<<"report: network">>)
    ELSE Str(<<"report: unknown">>)

\* Line 89: the labelled prefix followed by the mock analysis, computed
\* inside the except clause (an exception of _mock_analysis leaves the call).
FallbackReport(log_entry) ==
    IF MockAnalysis(log_entry).kind = "raises" THEN MockAnalysis(log_entry)
    ELSE Str(<<"request failed", "fell back to mock">> \o MockAnalysis(log_entry).text)

\* Lines 56-89.  The prompt is built (line 60) before the try.
DeepseekAnalysis(an, log_entry, remote) ==
    IF an.client = "none" THEN Str(<<"client initialisation failed">>)
    ELSE IF GetErrorStack(log_entry).kind = "raises" THEN GetErrorStack(log_entry)
    ELSE IF remote = "content" THEN Str(<<"remote report">>)
    ELSE IF remote = "no_content" THEN NoneValue
    ELSE FallbackReport(log_entry)

\* Lines 50-53.
AnalyzeError(an, log_entry, remote) ==
    IF an.provider = "mock" THEN MockAnalysis(log_entry)
    ELSE DeepseekAnalysis(an, log_entry, remote)

\* ------------------------------------------------------------- store calls
\* The number of calls on self.collection each method of LogDatabase issues.
\* get_logs and get_error_trend return at their connected test, else one find.
GetLogsStoreCalls(conn) == IF ~conn THEN 0 ELSE 1

GetErrorTrendStoreCalls(conn) == IF ~conn THEN 0 ELSE 1

\* get_log_by_id: ObjectId(log_id) is evaluated before find_one is called, so
\* a malformed identifier raises without a call on the collection.
GetLogByIdStoreCalls(conn, log_id) ==
    IF ~conn \/ log_id = <<>> THEN 0
    ELSE IF ~IsObjectIdString(log_id) THEN 0
    ELSE 1

\* ------------------------------------------------------------ format_record
\* The LogRecord attributes format_record branches on: the caller's
\* extra["metadata"] (absent, a dict, or None) and exc_info.
LogRecords == [metadata : {"absent", "dict", "None"}, exc_info : BOOLEAN]

\* Line 122 evaluates  "error_stack" not in log_entry["metadata"] : with
\* metadata None that raises TypeError; nothing else in format_record raises
\* (the % formatting is wrapped in its own try/except).
FormatRaises(record) == record.exc_info /\ record.metadata = "None"

\* The records format_record accepts.
WellFormed == {record \in LogRecords : ~FormatRaises(record)}

\* The level names of the logging module, and one custom level
\* (logging.addLevelName).
LevelNames == {"DEBUG", "INFO", "WARNING", "ERROR", "CRITICAL", "NOTICE"}

\* LogRecords with their levelname.
LeveledRecords ==
    [levelname : LevelNames, metadata : {"absent", "dict", "None"}, exc_info : BOOLEAN]

\* getattr(record, "metadata", {}): the caller's value, {} if there is none.
\* A dict is written by its keys.
GetMetadata(record) ==
    IF record.metadata = "absent" THEN [kind |-> "dict", keys |-> {}]
    ELSE IF record.metadata = "dict" THEN [kind |-> "dict", keys |-> {"user_id"}]
    ELSE [kind |-> "None", keys |-> {}]

\* The log_entry of lines 106-125 for a record format_record accepts, built
\* at the instant utcnow: its timestamp, level and metadata.
FormatRecord(record, utcnow) ==
    [timestamp |-> StoredTimestamp(utcnow),
     level     |-> record.levelname,
     metadata  |-> IF record.exc_info
                      THEN [GetMetadata(record) EXCEPT !.keys = @ \cup {"error_stack"}]
                      ELSE GetMetadata(record)]

\* ------------------------------------------------------------------- queue
\* queue.Queue is first-in first-out and unbounded: put never blocks.
QueuePutFront(q, item) == <<item>> \o q

QueuePut(q, item) == Append(q, item)

QueueFront(q) == Head(q)

\* --------------------------------------------------------------- triggers
IsBatchFullStrict(b) == Len(b) > batch_size

IsBatchFull(b) == Len(b) >= batch_size

IsTimeToFlushReversed(ct, lf) == (lf - ct) >= FlushInterval

IsTimeToFlush(ct, lf) == (ct - lf) >= FlushInterval

ShouldFlushTimeOnly(b, ct, lf) == b # <<>> /\ IsTimeToFlush(ct, lf)

ShouldFlush(b, ct, lf) == b # <<>> /\ (IsBatchFull(b) \/ IsTimeToFlush(ct, lf))

\* batch = [] after _flush_batch(batch)
AfterFlushKeep(b) == b

AfterFlush(b) == <<>>

\* while not self.stop_event.is_set() or not self.queue.empty()
LoopCondition == ~stop_event \/ queue # <<>>

\* The monitor's state before any call: no call in progress, none returned.
InitCalls ==
    /\ reply = NoReply
    /\ stats_run = StatsIdle
    /\ stats_calls = <<>>
    /\ writes = 0
    /\ lookups = {}
    /\ reads = 0

\* No LogDatabase has been constructed and the collection is empty.
InitMonitorOff ==
    collection = <<>> /\ connected = FALSE /\ InitCalls /\ analyzer = NoAnalyzer

\* LogDatabase.__init__ has run against a store holding at most n documents
\* with fields from fs: the connection check succeeded (connected) or raised
\* (not connected).
InitMonitor(fs, n) ==
    /\ \E k \in 0..n : \E c \in [1..k -> fs] : collection = [i \in 1..k |-> MakeDoc(i, c[i])]
    /\ connected \in BOOLEAN
    /\ InitCalls
    /\ analyzer = NoAnalyzer

\* -------------------------------------------------------------------- Init
\* __init__ of the h-th handler instance starts one thread on its own _worker.
InitThreadsShared(wt, h) == [k \in 1..h |-> IF k = h THEN 1 ELSE wt[k] + 1]

InitThreads(wt, h) == [k \in 1..h |-> IF k = h THEN 1 ELSE wt[k]]

\* The state after MongoHandler.__init__: the connection attempt has either
\* succeeded or left client None, the queue is empty and one worker thread
\* has been started (batch empty, last_flush = now).
InitSink ==
    /\ now = 0
    /\ queue = <<>>
    /\ stop_event = FALSE
    /\ client \in {"open", "none"}
    /\ batch = <<>>
    /\ last_flush = 0
    /\ wpc = "test"
    /\ getDeadline = 0
    /\ ppc = [p \in Producers |-> "idle"]
    /\ pseq = [p \in Producers |-> 0]
    /\ cpc = "idle"
    /\ joinDeadline = 0
    /\ join_timed_out = FALSE
    /\ submitted = <<>>
    /\ flushCalls = <<>>
    /\ inserts = <<>>
    /\ worker_threads = InitThreads(<<>>, 1)

InitHandler == InitSink /\ prompt = FALSE /\ batch_size = BatchSize /\ entered = <<>>

Init == InitHandler /\ InitMonitorOff

InitTimed ==
    InitSink /\ prompt = TRUE /\ batch_size = BatchSizeTimed /\ entered = <<>> /\ InitMonitorOff

\* --------------------------------------------------------------------- emit
\* Where control goes when the try body of emit raises: the except clause
\* calls handleError, which reports on stderr and returns.
EmitOnExceptionPropagate == "raised"

EmitOnException == "except"

\* emit, first half: log_entry = self.format_record(record), for a record
\* the caller draws from the set records.
EmitFormat(p, records) ==
    /\ ppc[p] = "idle"
    /\ Begun < MaxRecords
    /\ \E record \in records :
          ppc' = [ppc EXCEPT ![p] = IF FormatRaises(record) THEN EmitOnException
                                    ELSE "formatted"]
    /\ UNCHANGED <<now, sinkVars, workerVars, pseq, closerVars, histVars, worker_threads>>

\* An emit that writes to the store itself instead of queueing.
EmitPutSync(p) ==
    /\ ppc[p] = "formatted"
    /\ wpc # "inserting"
    /\ LET item == [prod |-> p, seq |-> pseq[p] + 1] IN
          /\ inserts' = Append(inserts,
                               [batch |-> <<item>>, by |-> "producer", result |-> "ok"])
          /\ submitted' = Append(submitted,
                                 [rec |-> item, at |-> IF prompt THEN now ELSE 0,
                                  after_stop |-> stop_event])
    /\ pseq' = [pseq EXCEPT ![p] = @ + 1]
    /\ ppc' = [ppc EXCEPT ![p] = "idle"]
    /\ UNCHANGED <<now, sinkVars, workerVars, closerVars, otherVars, flushCalls,
                   worker_threads>>

\* emit, second half: self.queue.put(log_entry), then emit returns.
EmitPut(p) ==
    /\ ppc[p] = "formatted"
    /\ LET item == [prod |-> p, seq |-> pseq[p] + 1] IN
          /\ queue' = QueuePut(queue, item)
          /\ submitted' = Append(submitted,
                                 [rec |-> item, at |-> IF prompt THEN now ELSE 0,
                                  after_stop |-> stop_event])
    /\ UNCHANGED otherVars
    /\ pseq' = [pseq EXCEPT ![p] = @ + 1]
    /\ ppc' = [ppc EXCEPT ![p] = "idle"]
    /\ UNCHANGED <<now, stop_event, client, batch_size, workerVars, closerVars,
                   flushCalls, inserts, worker_threads>>

\* The whole of emit in one step, for a record drawn from records and the
\* clock reading utcnow: format_record and the put touch nothing shared but
\* the queue, and a record format_record rejects leaves the sink untouched.
Emit(p, records) ==
    /\ ppc[p] = "idle"
    /\ Begun < MaxRecords
    /\ \E record \in records :
          IF FormatRaises(record)
             THEN UNCHANGED <<queue, submitted, pseq, entered>>
             ELSE LET item == [prod |-> p, seq |-> pseq[p] + 1] IN
                  /\ queue' = QueuePut(queue, item)
                  /\ submitted' = Append(submitted,
                                         [rec |-> item, at |-> 0, after_stop |-> stop_event])
                  /\ pseq' = [pseq EXCEPT ![p] = @ + 1]
                  /\ entered' = Append(entered,
                                       FormatRecord(record, [sec |-> now, micro |-> 0]))
    /\ UNCHANGED <<now, stop_event, client, batch_size, workerVars, ppc, closerVars,
                   prompt, monitorVars, flushCalls, inserts, worker_threads>>

\* emit, except clause: self.handleError(record); the record is not queued
\* and emit returns normally.
EmitHandleError(p) ==
    /\ ppc[p] = "except"
    /\ ppc' = [ppc EXCEPT ![p] = "idle"]
    /\ UNCHANGED <<now, sinkVars, workerVars, pseq, closerVars, histVars, worker_threads>>

\* ------------------------------------------------------------------ _worker
\* The while test of line 138, and the start of queue.get(timeout=0.1).
WorkerTest ==
    /\ wpc = "test"
    /\ IF LoopCondition
          THEN wpc' = "get" /\ getDeadline' = now + PollInterval
          ELSE wpc' = "done" /\ getDeadline' = 0
    /\ UNCHANGED <<now, sinkVars, batch, last_flush, producerVars, closerVars,
                   histVars, worker_threads>>

\* Lines 147-155 with the batch b the get left behind: read the clock, decide,
\* and either call _flush_batch or go back to the while test.  _flush_batch
\* calls insert_many only if self.client is truthy (a closed MongoClient still
\* is); with client None it returns at once and the batch is cleared.
\* last_flush takes the clock value read before the flush (current_time); the
\* worker alone reads it, so it is assigned here and not when insert_many ends.
Decide(b) ==
    /\ getDeadline' = 0
    /\ IF ShouldFlush(b, now, last_flush)
          THEN /\ flushCalls' = Append(flushCalls, b)
               /\ last_flush' = now
               /\ IF client # "none"
                     THEN /\ inserts' = Append(inserts,
                                 [batch |-> b, by |-> "worker", result |-> "pending"])
                          /\ batch' = b
                          /\ wpc' = "inserting"
                     ELSE /\ batch' = AfterFlush(b)
                          /\ wpc' = "test"
                          /\ UNCHANGED inserts
          ELSE /\ batch' = b
               /\ wpc' = "test"
               /\ UNCHANGED <<flushCalls, inserts, last_flush>>

\* queue.get(timeout=0.1) returns an item: batch.append(item), then 147-155.
WorkerGetItem ==
    /\ wpc = "get"
    /\ queue # <<>>
    /\ queue' = Tail(queue)
    /\ Decide(Append(batch, QueueFront(queue)))
    /\ UNCHANGED <<now, stop_event, client, batch_size, producerVars, closerVars,
                   submitted, otherVars, worker_threads>>

\* queue.get(timeout=0.1) raises queue.Empty after the timeout, then 147-155.
WorkerGetEmpty ==
    /\ wpc = "get"
    /\ queue = <<>>
    /\ now >= getDeadline
    /\ Decide(batch)
    /\ UNCHANGED <<now, sinkVars, producerVars, closerVars, submitted, otherVars,
                   worker_threads>>

\* Where the worker goes when insert_many raises: the except clause of
\* _flush_batch prints the exception and returns into the loop of _worker.
FlushOnExceptionExit == "done"

FlushOnException == "test"

\* insert_many returns or raises; _flush_batch only prints the exception.
\* Then batch = [] (line 154).
InsertReturn ==
    /\ wpc = "inserting"
    /\ \E res \in {"ok", "error"} :
          /\ inserts' = [inserts EXCEPT ![Len(inserts)].result = res]
          /\ wpc' = IF res = "error" THEN FlushOnException ELSE "test"
    /\ batch' = AfterFlush(batch)
    /\ UNCHANGED <<now, sinkVars, last_flush, getDeadline, producerVars, closerVars,
                   submitted, otherVars, flushCalls, worker_threads>>

\* -------------------------------------------------------------------- close
\* self.stop_event.set(); if the worker is alive, start join(timeout=2.0).
CloseSet ==
    /\ cpc = "idle"
    /\ stop_event' = TRUE
    /\ IF wpc # "done"
          THEN cpc' = "join" /\ joinDeadline' = now + JoinTimeout
          ELSE cpc' = "close_client" /\ joinDeadline' = 0
    /\ UNCHANGED <<now, queue, client, batch_size, workerVars, producerVars,
                   join_timed_out, histVars, worker_threads>>

\* join returns because the worker thread has ended.
CloseJoined ==
    /\ cpc = "join"
    /\ wpc = "done"
    /\ cpc' = "close_client"
    /\ joinDeadline' = 0
    /\ UNCHANGED <<now, sinkVars, workerVars, producerVars, join_timed_out,
                   histVars, worker_threads>>

\* join returns because its timeout expired with the worker still alive.
CloseJoinTimeout ==
    /\ cpc = "join"
    /\ wpc # "done"
    /\ now >= joinDeadline
    /\ cpc' = "close_client"
    /\ joinDeadline' = 0
    /\ join_timed_out' = TRUE
    /\ UNCHANGED <<now, sinkVars, workerVars, producerVars, histVars, worker_threads>>

\* if self.client: self.client.close(); super().close(); close returns.
CloseClient ==
    /\ cpc = "close_client"
    /\ client' = IF client = "none" THEN "none" ELSE "closed"
    /\ cpc' = "returned"
    /\ UNCHANGED <<now, queue, stop_event, batch_size, workerVars, producerVars,
                   joinDeadline, join_timed_out, histVars, worker_threads>>

\* ------------------------------------------------------------ setup_logging
\* Each call constructs a new MongoHandler, whose __init__ creates its own
\* queue and starts one thread on its own _worker.
SetupLogging ==
    /\ Len(worker_threads) < MaxHandlers
    /\ worker_threads' = InitThreads(worker_threads, Len(worker_threads) + 1)
    /\ UNCHANGED <<now, sinkVars, workerVars, producerVars, closerVars, histVars>>

\* ------------------------------------------------------------------ monitor
\* What the calls of LogDatabase leave alone: the handler and its threads.
handlerVars == <<now, sinkVars, workerVars, producerVars, closerVars, submitted,
                 prompt, entered, flushCalls, inserts, worker_threads>>

\* The arguments of the get_logs calls.
ListInstants == {t \in Instants : t.sec <= MaxListSec}

ListArgs ==
    [limit : 0..MaxLimit, service : {"", "All", "A"}, level : {"", "All", "ERROR"},
     start_time : {<<>>} \cup {Some(t) : t \in ListInstants},
     end_time : {<<>>} \cup {Some(t) : t \in ListInstants},
     search_text : {<<>>, <<"A">>}]

\* A call of get_logs returns; a behaviour follows one call.
GetLogsCall ==
    /\ reply = NoReply
    /\ \E args \in ListArgs :
          reply' = [op |-> "get_logs", args |-> args,
                    value |-> GetLogs(collection, connected, args.limit, args.service,
                                      args.level, args.start_time, args.end_time,
                                      args.search_text)]
    /\ reads' = reads + GetLogsStoreCalls(connected)
    /\ UNCHANGED <<handlerVars, collection, connected, stats_run, stats_calls, writes,
                   lookups, analyzer>>

\* A call of get_error_trend at the instant utcnow returns, and the error
\* trend tab groups its rows; a behaviour follows one call.
GetErrorTrendCall ==
    /\ reply = NoReply
    /\ \E utcnow \in {t \in Instants : t.sec >= TrendWindow} :
          LET rows == GetErrorTrend(collection, connected, utcnow) IN
          reply' = [op |-> "get_error_trend", args |-> [utcnow |-> utcnow],
                    value |-> rows, counts |-> ErrorCounts(rows)]
    /\ reads' = reads + GetErrorTrendStoreCalls(connected)
    /\ UNCHANGED <<handlerVars, collection, connected, stats_run, stats_calls, writes,
                   lookups, analyzer>>

\* get_stats, lines 106-114: not connected, it returns zeros at once;
\* connected, it counts all documents.
StatsBegin ==
    /\ stats_run.pc = "idle"
    /\ Len(stats_calls) < MaxStatsCalls
    /\ IF ~connected
          THEN /\ stats_calls' = Append(stats_calls,
                      [value |-> [total_logs |-> 0, error_logs |-> 0,
                                  service_counts |-> <<>>],
                       started |-> writes, returned |-> writes,
                       store |-> collection, left |-> collection])
               /\ UNCHANGED <<stats_run, collection, reads>>
          ELSE /\ stats_run' = [pc |-> "counted_total",
                                total_logs |-> CountDocuments(collection, <<>>),
                                error_logs |-> 0, started |-> writes,
                                store |-> collection]
               /\ collection' = AfterRead(collection)
               /\ reads' = reads + 1
               /\ UNCHANGED stats_calls
    /\ UNCHANGED <<handlerVars, connected, reply, writes, lookups, analyzer>>

\* get_stats, line 116: it counts the ERROR documents.
StatsErrors ==
    /\ stats_run.pc = "counted_total"
    /\ stats_run' = [stats_run EXCEPT !.pc = "counted_errors",
                                      !.error_logs = CountDocuments(collection, <<"ERROR">>)]
    /\ collection' = AfterRead(collection)
    /\ reads' = reads + 1
    /\ UNCHANGED <<handlerVars, connected, reply, stats_calls, writes, lookups, analyzer>>

\* get_stats, lines 120-129: it aggregates by service and returns.
StatsReturn ==
    /\ stats_run.pc = "counted_errors"
    /\ stats_calls' = Append(stats_calls,
           [value |-> [total_logs |-> stats_run.total_logs,
                       error_logs |-> stats_run.error_logs,
                       service_counts |-> ServiceCounts(collection)],
            started |-> stats_run.started, returned |-> writes,
            store |-> stats_run.store, left |-> AfterRead(collection)])
    /\ collection' = AfterRead(collection)
    /\ stats_run' = StatsIdle
    /\ reads' = reads + 1
    /\ UNCHANGED <<handlerVars, connected, reply, writes, lookups, analyzer>>

\* A call of get_log_by_id returns; a behaviour follows calls that differ.
GetLogByIdCall ==
    /\ Cardinality(lookups) < MaxLookups
    /\ \E log_id \in IdStrings, store_up \in BOOLEAN :
          /\ \A c \in lookups : c.log_id # log_id \/ c.store_up # store_up
          /\ lookups' = lookups \cup
                {[log_id |-> log_id, store_up |-> store_up,
                  value |-> GetLogById(collection, connected, log_id, store_up)]}
          /\ reads' = reads + GetLogByIdStoreCalls(connected, log_id)
    /\ UNCHANGED <<handlerVars, collection, connected, reply, stats_run, stats_calls,
                   writes, analyzer>>

\* A handler's insert_many lands one document in the collection.
StoreInsert(fs) ==
    /\ Len(collection) < MaxDocs
    /\ \E f \in fs : collection' = Append(collection, MakeDoc(Len(collection) + 1, f))
    /\ writes' = writes + 1
    /\ UNCHANGED <<handlerVars, connected, reply, stats_run, stats_calls, lookups,
                   reads, analyzer>>

\* A call of analyze_error returns or raises, for the log entry passed and
\* what the remote service does if it is called; a behaviour follows one call.
AnalyzeErrorCall ==
    /\ reply = NoReply
    /\ \E log_entry \in LogEntries, remote \in RemoteOutcomes :
          reply' = [op |-> "analyze_error",
                    args |-> [log_entry |-> log_entry, remote |-> remote],
                    value |-> AnalyzeError(analyzer, log_entry, remote)]
    /\ UNCHANGED <<handlerVars, collection, connected, stats_run, stats_calls, writes,
                   lookups, reads, analyzer>>

\* --------------------------------------------------------------------- time
\* Time passes; threads may be delayed arbitrarily.
Tick ==
    /\ now < MaxTime
    /\ now' = now + 1
    /\ UNCHANGED <<sinkVars, workerVars, producerVars, closerVars, histVars,
                   worker_threads>>

\* Time passes only while the worker is blocked in queue.get and not past the
\* get's timeout: the worker is scheduled at once and the store answers at once.
TickPrompt ==
    /\ now < MaxTimeTimed
    /\ \/ wpc = "done"
       \/ wpc = "get" /\ queue = <<>> /\ now < getDeadline
    /\ now' = now + 1
    /\ UNCHANGED <<sinkVars, workerVars, producerVars, closerVars, histVars,
                   worker_threads>>

\* Time passes only while the worker is blocked: in queue.get before its
\* timeout, or in insert_many while the store does not answer; the worker and
\* the thread in close() are scheduled at once.
TickDrain ==
    /\ now < MaxTime
    /\ \/ wpc = "done"
       \/ wpc = "inserting"
       \/ wpc = "get" /\ queue = <<>> /\ now < getDeadline
    /\ cpc # "close_client"
    /\ cpc = "join" => (wpc # "done" /\ now < joinDeadline)
    /\ now' = now + 1
    /\ UNCHANGED <<sinkVars, workerVars, producerVars, closerVars, histVars,
                   worker_threads>>

\* ----------------------------------------------------------- specifications
\* The sink with producers, worker, close() and the clock interleaved freely;
\* the producers log well-formed records (a record format_record rejects
\* leaves the sink untouched, see SpecStart).
Next ==
    \/ \E p \in Producers : EmitFormat(p, WellFormed)
    \/ \E p \in Producers : EmitPut(p)
    \/ WorkerTest
    \/ WorkerGetItem
    \/ WorkerGetEmpty
    \/ InsertReturn
    \/ CloseSet
    \/ CloseJoined
    \/ CloseJoinTimeout
    \/ CloseClient
    \/ Tick

Spec == Init /\ [][Next]_vars

\* The running sink (close() not called) with a promptly scheduled worker and
\* a promptly answering store.
NextTimed ==
    \/ \E p \in Producers : EmitFormat(p, WellFormed)
    \/ \E p \in Producers : EmitPut(p)
    \/ WorkerTest
    \/ WorkerGetItem
    \/ WorkerGetEmpty
    \/ InsertReturn
    \/ TickPrompt

SpecTimed == InitTimed /\ [][NextTimed]_vars

\* The sink before the clock advances: setup_logging called several times,
\* producers that log every kind of record, worker and close().
NextStart ==
    \/ SetupLogging
    \/ \E p \in Producers : EmitFormat(p, LogRecords)
    \/ \E p \in Producers : EmitPut(p)
    \/ \E p \in Producers : EmitHandleError(p)
    \/ WorkerTest
    \/ WorkerGetItem
    \/ InsertReturn
    \/ CloseSet
    \/ CloseJoined
    \/ CloseClient

SpecStart == Init /\ [][NextStart]_vars

\* The sink with a promptly scheduled worker and close(), a store that may
\* not answer, and producers that log when they like.
NextDrain ==
    \/ \E p \in Producers : EmitFormat(p, WellFormed)
    \/ \E p \in Producers : EmitPut(p)
    \/ WorkerTest
    \/ WorkerGetItem
    \/ WorkerGetEmpty
    \/ InsertReturn
    \/ CloseSet
    \/ CloseJoined
    \/ CloseJoinTimeout
    \/ CloseClient
    \/ TickDrain

SpecDrain == Init /\ [][NextDrain]_vars

\* The same sink, connected to its store, for every batch_size from 1 to
\* that of the other handlers.
InitBatch ==
    /\ InitSink
    /\ client = "open"
    /\ prompt = FALSE
    /\ batch_size \in 1..BatchSize
    /\ entered = <<>>
    /\ InitMonitorOff

SpecBatch == InitBatch /\ [][NextDrain]_vars

\* Producers that log records of every level, with and without metadata and
\* exc_info, the worker not yet scheduled.
NextFormat == \E p \in Producers : Emit(p, LeveledRecords)

SpecFormat == Init /\ [][NextFormat]_vars

\* get_logs over every small collection.
ListFields == DocFields(Services, Levels, ListInstants, Messages)

InitList == InitHandler /\ client = "open" /\ InitMonitor(ListFields, MaxListDocs)

NextList == GetLogsCall

SpecList == InitList /\ [][NextList]_vars

\* get_error_trend and the error trend tab over every small collection.
TrendFields == DocFields(Services, Levels, Instants, {<<"b">>})

InitTrend == InitHandler /\ client = "open" /\ InitMonitor(TrendFields, MaxDocs)

NextTrend == GetErrorTrendCall

SpecTrend == InitTrend /\ [][NextTrend]_vars

\* get_stats calls, interleaved step by step with writes to the collection
\* and with a handler that is being closed.
StatsFields == DocFields(Services, Levels, {[sec |-> 0, micro |-> 0]}, {<<"b">>})

InitStats == InitHandler /\ client = "open" /\ InitMonitor(StatsFields, 0)

NextStats ==
    \/ StatsBegin
    \/ StatsErrors
    \/ StatsReturn
    \/ StoreInsert(StatsFields)
    \/ WorkerTest
    \/ CloseSet
    \/ CloseJoined
    \/ CloseClient

SpecStats == InitStats /\ [][NextStats]_vars

\* get_log_by_id over collections of every small size.
LookupFields == DocFields({"A"}, {"INFO"}, {[sec |-> 0, micro |-> 0]}, {<<"b">>})

InitLookup ==
    InitHandler /\ client = "open" /\ InitMonitor(LookupFields, MaxDocs)

NextLookup == GetLogByIdCall

SpecLookup == InitLookup /\ [][NextLookup]_vars

\* Every read method of LogDatabase, on a store that was reachable at
\* construction or was not: get_stats calls first, then one call of
\* get_logs or of get_error_trend, or calls of get_log_by_id.
OfflineFields == DocFields({"A"}, Levels, {[sec |-> 0, micro |-> 0]}, {<<"b">>})

InitOffline ==
    InitHandler /\ client = "open" /\ InitMonitor(OfflineFields, MaxListDocs)

NoCallReturned == reply = NoReply /\ lookups = {}

NextOffline ==
    \/ NoCallReturned /\ StatsBegin
    \/ StatsErrors
    \/ StatsReturn
    \/ stats_run = StatsIdle /\ lookups = {} /\ GetLogsCall
    \/ stats_run = StatsIdle /\ lookups = {} /\ GetErrorTrendCall
    \/ stats_run = StatsIdle /\ reply = NoReply /\ GetLogByIdCall

SpecOffline == InitOffline /\ [][NextOffline]_vars

\* analyze_error on every analyzer __init__ can leave behind.
InitAnalyze ==
    /\ InitHandler
    /\ client = "open"
    /\ collection = <<>>
    /\ connected \in BOOLEAN
    /\ InitCalls
    /\ analyzer \in Analyzers

NextAnalyze == AnalyzeErrorCall

SpecAnalyze == InitAnalyze /\ [][NextAnalyze]_vars

\* ------------------------------------------------------- derived histories
SubmittedRecs == [i \in 1..Len(submitted) |-> submitted[i].rec]

\* The records the worker has taken from the queue, in the order taken.
Dequeued == SubSeq(SubmittedRecs, 1, Len(submitted) - Len(queue))

\* All batches handed to _flush_batch, concatenated in flush order.
FlushedRecs == Flatten(flushCalls)

\* All batches passed to insert_many, concatenated in call order.
InsertedRecs == Flatten([i \in 1..Len(inserts) |-> inserts[i].batch])

\* The records of the batches whose insert_many returned without error.
StoredRecs ==
    Flatten([i \in 1..Len(inserts) |->
                IF inserts[i].result = "ok" THEN inserts[i].batch ELSE <<>>])

\* The working buffer, empty from the hand-over to _flush_batch on.
Unflushed == IF wpc = "inserting" THEN <<>> ELSE batch

\* Records the sink still holds: queued, or in the batch of a live worker.
Buffered == Len(queue) + (IF wpc = "done" THEN 0 ELSE Len(batch))

\* Indices of the submitted records not yet handed to a flush.
Pending == {i \in 1..Len(submitted) : submitted[i].rec \notin Range(FlushedRecs)}

SameInstant == \A i, j \in 1..Len(submitted) : submitted[i].at = submitted[j].at

\* ------------------------------------------------------------------ claims

\* C1 (drain completeness): if fewer than batch_size records were submitted,
\* all before close() was called, the store is connected and never failed, and
\* close() has returned after a join that did not time out, then every
\* submitted record has been passed to insert_many.
C1_DrainCompleteness ==
    ( /\ cpc = "returned"
      /\ ~join_timed_out
      /\ client # "none"
      /\ Len(submitted) < batch_size
      /\ \A i \in 1..Len(submitted) : ~submitted[i].after_stop
      /\ \A i \in 1..Len(inserts) : inserts[i].result # "error" )
    => \A i \in 1..Len(submitted) : submitted[i].rec \in Range(InsertedRecs)

\* C2 (record conservation): the records of the successfully inserted batches
\* are the records submitted minus those still buffered minus those counted
\* as dropped.  The handler keeps no drop counter, so the counted drops are 0.
C2_RecordConservation ==
    Len(StoredRecs) = Len(submitted) - Buffered

\* C3 (FIFO per producer): in the concatenation of the flushed batches, the
\* records of one producer appear in the order that producer submitted them.
C3_FifoPerProducer ==
    \A i, j \in 1..Len(FlushedRecs) :
        (i < j /\ FlushedRecs[i].prod = FlushedRecs[j].prod)
            => FlushedRecs[i].seq < FlushedRecs[j].seq

C3_Witness ==
    /\ Len(flushCalls) >= 2
    /\ \E i, j \in 1..Len(FlushedRecs) :
          /\ i < j
          /\ FlushedRecs[i].prod = FlushedRecs[j].prod
          /\ \E k \in 1..Len(FlushedRecs) : FlushedRecs[k].prod # FlushedRecs[i].prod

C5_SizeTrigger ==
    (now = 0 /\ Len(submitted) <= batch_size)
    => flushCalls = IF Len(Dequeued) = batch_size THEN <<SubmittedRecs>> ELSE <<>>

C5_Witness ==
    /\ now = 0
    /\ Len(submitted) = batch_size
    /\ flushCalls = <<SubmittedRecs>>
    /\ wpc = "get"

\* C6 as stated (time trigger, single flush, also after idling): when fewer
\* than batch_size records were submitted at one instant, none stays unflushed
\* for longer than flush_interval plus one poll interval, and once all are
\* flushed they were flushed by a single flush.
C6_TimeTriggerSingleFlush ==
    /\ \A i \in Pending : now - submitted[i].at <= FlushInterval + PollInterval
    /\ ( /\ submitted # <<>>
         /\ Len(submitted) < batch_size
         /\ SameInstant
         /\ Pending = {} )
       => Len(flushCalls) = 1

\* C6 amended: in the running sink no submitted record stays unflushed for
\* longer than flush_interval plus one poll interval; fewer than batch_size
\* records submitted at one instant are flushed by a single flush provided
\* less than flush_interval had elapsed since the last flush (here: since the
\* start of the worker) when they were submitted.
C6_TimeTriggerBound ==
    /\ \A i \in Pending : now - submitted[i].at <= FlushInterval + PollInterval
    /\ ( /\ submitted # <<>>
         /\ Len(submitted) < batch_size
         /\ SameInstant
         /\ submitted[1].at < FlushInterval
         /\ Pending = {} )
       => Len(flushCalls) = 1

C6_Witness ==
    /\ Len(submitted) = 2
    /\ Len(submitted) < batch_size
    /\ SameInstant
    /\ submitted[1].at > 0
    /\ submitted[1].at < FlushInterval
    /\ flushCalls = <<SubmittedRecs>>

\* C7 (single flush loop): every handler instance has exactly one thread
\* running its _worker, however often setup_logging is called.
C7_SingleFlushLoop ==
    \A h \in DOMAIN worker_threads : worker_threads[h] = 1

C7_Witness == Len(worker_threads) >= 2 /\ submitted # <<>>

\* C8 (no store I/O on the producer path): every insert_many call is made by
\* the worker thread, and an emit that has formatted its record can put it and
\* return in every state of the store, the queue and the worker.
C8_StoreOffProducerPath ==
    /\ \A i \in 1..Len(inserts) : inserts[i].by = "worker"
    /\ \A p \in Producers : ppc[p] = "formatted" => ENABLED EmitPut(p)

C8_Witness ==
    /\ wpc = "inserting"
    /\ client = "closed"
    /\ \E p \in Producers : ppc[p] = "formatted"

\* C9 (retry exactly once): the records of a batch whose insert_many raised
\* are still held by the sink or have been passed to insert_many again.
C9_RetryOnce ==
    \A i \in 1..Len(inserts) :
        inserts[i].result = "error"
            => \/ Range(inserts[i].batch) \subseteq Range(Unflushed)
               \/ \E j \in 1..Len(inserts) :
                     j > i /\ Range(inserts[i].batch) \subseteq Range(inserts[j].batch)

\* C10 (emit never propagates): no emit call ends by raising into its caller;
\* a failure of format_record is handled inside emit, which can then return
\* in every state of the queue, the store connection and the worker.
C10_EmitNeverRaises ==
    /\ \A p \in Producers : ppc[p] \in {"idle", "formatted", "except"}
    /\ \A p \in Producers : ppc[p] = "except" => ENABLED EmitHandleError(p)

C10_Witness ==
    \E p \in Producers : ppc[p] = "except" /\ client = "closed" /\ queue # <<>>

\* The state of the sink as the handler's fields show it: Running from the
\* end of __init__ (the worker thread is started there), Draining once the
\* stop event is set, Stopped once close() has returned.
SinkState ==
    IF cpc = "returned" THEN "Stopped"
    ELSE IF stop_event THEN "Draining"
    ELSE "Running"

SinkRank(s) ==
    CASE s = "Created" -> 0
      [] s = "Running" -> 1
      [] s = "Draining" -> 2
      [] s = "Stopped" -> 3

\* C11 (Stopped is terminal): the sink state only advances in the order
\* Created, Running, Draining, Stopped, and an emit that starts once close()
\* has returned is rejected: it never gets to put its record on the queue.
C11_StoppedTerminal ==
    [][ /\ SinkRank(SinkState') >= SinkRank(SinkState)
        /\ \A p \in Producers :
              (SinkState = "Stopped" /\ ppc[p] = "idle") => ppc'[p] # "formatted"
      ]_vars

\* C12 (bounded shutdown): with the worker scheduled at once, when close()
\* gets past its join, which waits for the drain timeout at most, the worker
\* thread has terminated, whether or not the store answers and whatever the
\* producers submit meanwhile.
C12_BoundedShutdown ==
    cpc \in {"close_client", "returned"} => wpc = "done"

\* C13 (bounded queue): the queue has a capacity below the number of records
\* the producers submit: it never holds all MaxRecords of them at once.
C13_BoundedQueue ==
    Len(queue) < MaxRecords

\* The filters of a get_logs call as instants and values: service and level
\* equal unless "All" or empty, start <= timestamp <= end for the bounds
\* given, message matched without regard to case unless the text is empty.
SatisfiesFilters(doc, args) ==
    /\ args.service \notin {"", "All"} => doc.service_name = args.service
    /\ args.level \notin {"", "All"} => doc.level = args.level
    /\ args.start_time # <<>> => NotAfter(args.start_time[1], ToDatetime(doc.timestamp))
    /\ args.end_time # <<>> => NotAfter(ToDatetime(doc.timestamp), args.end_time[1])
    /\ args.search_text # <<>> => RegexSearchI(args.search_text, doc.message)

\* The stored documents (by position) a get_logs reply contains.
Returned ==
    {i \in 1..Len(collection) :
        \E j \in 1..Len(reply.value) : reply.value[j]._id = collection[i]._id.oid}

\* C14 (filter conjunction): a connected get_logs returns only documents
\* that satisfy all active filters, and all of them when their number does
\* not exceed the limit.
C14_FilterConjunction ==
    (reply.op = "get_logs" /\ connected) =>
        LET matching == {i \in 1..Len(collection) :
                            SatisfiesFilters(collection[i], reply.args)}
        IN  /\ Returned \subseteq matching
            /\ Cardinality(matching) <= reply.args.limit => Returned = matching

\* C15 (newest first, capped): for a limit L >= 1 the reply of a connected
\* get_logs is in descending order of time, holds min(L, number of documents
\* the query selects) documents, all selected by the query, and no selected
\* document left out is newer than one in the reply.
C15_NewestFirstCapped ==
    (reply.op = "get_logs" /\ connected /\ reply.args.limit >= 1) =>
        LET v == reply.value
            a == reply.args
            selected == Find(collection, BuildQuery(a.service, a.level, a.start_time,
                                                    a.end_time, a.search_text))
            At(d) == ToDatetime(d.timestamp)
        IN  /\ \A i, j \in 1..Len(v) : i < j => NotAfter(At(v[j]), At(v[i]))
            /\ Len(v) = IF Len(selected) < a.limit THEN Len(selected) ELSE a.limit
            /\ \A j \in 1..Len(v) : \E i \in 1..Len(selected) : v[j] = StrId(selected[i])
            /\ \A i \in 1..Len(selected) :
                  (\A j \in 1..Len(v) : v[j] # StrId(selected[i]))
                      => \A j \in 1..Len(v) : NotAfter(At(selected[i]), At(v[j]))

\* C16 (hard upper bound): a get_logs call with limit 0 returns no more
\* documents than a call that passes no limit may, the default limit being
\* the only maximum get_logs has.
C16_HardUpperBound ==
    (reply.op = "get_logs" /\ reply.args.limit = 0) => Len(reply.value) <= DefaultLimit

\* C17 (trend bucketing): the error trend of a connected monitor has exactly
\* one row per (hour, service) with an ERROR document of that service in that
\* hour and not older than the window, with the number of such documents as
\* its count.
C17_TrendBucketing ==
    (reply.op = "get_error_trend" /\ connected) =>
        LET since == Yesterday(reply.args.utcnow)
            Bucket(h, s) ==
                {i \in 1..Len(collection) :
                    /\ collection[i].level = "ERROR"
                    /\ collection[i].service_name = s
                    /\ NotAfter(since, ToDatetime(collection[i].timestamp))
                    /\ FloorHour(ToDatetime(collection[i].timestamp)) = h}
            keys == {k \in {FloorHour(t) : t \in Instants} \X Services :
                        Bucket(k[1], k[2]) # {}}
        IN  /\ DOMAIN reply.counts = keys
            /\ \A k \in keys : reply.counts[k] = Cardinality(Bucket(k[1], k[2]))

\* C18 (idempotent, read-only stats): a get_stats call with no write during
\* it leaves the collection as it found it; two get_stats calls with no write
\* from the start of the first to the return of the second return the same
\* total, error count and per-service mapping; and no step of get_stats
\* changes the state of a handler.
C18_StatsIdempotent ==
    /\ [](/\ \A i \in 1..Len(stats_calls) :
                stats_calls[i].started = stats_calls[i].returned
                    => stats_calls[i].left = stats_calls[i].store
          /\ \A i, j \in 1..Len(stats_calls) :
                (i < j /\ stats_calls[i].started = stats_calls[j].returned)
                    => stats_calls[i].value = stats_calls[j].value)
    /\ [][(stats_run' # stats_run \/ stats_calls' # stats_calls)
             => UNCHANGED handlerVars]_vars

C18_Witness ==
    /\ connected
    /\ stop_event
    /\ Len(stats_calls) = 2
    /\ stats_calls[1].started = stats_calls[2].returned
    /\ stats_calls[2].value.total_logs >= 2
    /\ stats_calls[2].value.error_logs >= 1
    /\ Cardinality(DOMAIN stats_calls[2].value.service_counts) = 2

\* The kinds of get_log_by_id calls: a malformed identifier, a well-formed
\* one that no document has (the store answering), a failure of the store.
MalformedId(c) == c.log_id # <<>> /\ ~IsObjectIdString(c.log_id)

AbsentId(c) ==
    /\ IsObjectIdString(c.log_id)
    /\ c.store_up
    /\ FindOne(collection, [oid |-> c.log_id]) = <<>>

StoreFailed(c) == IsObjectIdString(c.log_id) /\ ~c.store_up

\* C19 (malformed is not absent): a connected get_log_by_id never returns
\* for a malformed identifier, or when the store fails, the value it returns
\* for a well-formed identifier that no document has.
C19_MalformedNotAbsent ==
    connected =>
        \A a, b \in lookups :
            ((MalformedId(a) \/ StoreFailed(a)) /\ AbsentId(b)) => a.value # b.value

\* The four levels a record may have.
RecognizedLevels == {"DEBUG", "INFO", "WARNING", "ERROR"}

\* C20 (record shape): every log entry put on the queue has one of the four
\* recognized levels, a timestamp, and a metadata that is a mapping.
C20_RecordShape ==
    \A i \in 1..Len(entered) :
        /\ entered[i].level \in RecognizedLevels
        /\ entered[i].timestamp # <<>>
        /\ entered[i].metadata.kind = "dict"

\* The remote call of an analyze_error call was made and failed.
RemoteFailed == analyzer.client = "open" /\ reply.args.remote = "raises"

\* C21 (diagnosis fallback): every analyze_error call, whatever the record
\* and whatever the state of the remote service, ends by returning a string;
\* when the client was not initialised the string says so, and when the
\* remote call failed the string is labelled as a fallback.
C21_DiagnosisFallback ==
    reply.op = "analyze_error" =>
        /\ reply.value.kind = "str"
        /\ analyzer.client = "none" =>
               reply.value.text = <<"client initialisation failed">>
        /\ RemoteFailed => reply.value.text[1] = "request failed"

\* A batch insert has raised, or the handler has no store client.
StoreHasFailed ==
    client = "none" \/ \E k \in 1..Len(inserts) : inserts[k].result = "error"

\* C22 (a store failure never stops the flush loop): in the running sink,
\* once a batch insert has raised or when the store client is missing, the
\* worker is still running, and no submitted record waits for its flush
\* longer than flush_interval plus one poll interval: the records submitted
\* after the failure are taken from the queue and handed to a later flush.
C22_FailureKeepsLoop ==
    StoreHasFailed =>
        /\ wpc # "done"
        /\ \A i \in Pending : now - submitted[i].at <= FlushInterval + PollInterval

\* The first insert raised; a record submitted after that batch was flushed
\* (later than the longest wait of its records) is in the second insert,
\* which the recovered store accepted.
C22_Witness ==
    /\ Len(inserts) = 2
    /\ inserts[1].result = "error"
    /\ inserts[2].result = "ok"
    /\ \E j \in 1..Len(submitted) :
          /\ submitted[j].rec \in Range(inserts[2].batch)
          /\ \A i \in 1..Len(submitted) :
                submitted[i].rec \in Range(inserts[1].batch)
                    => submitted[j].at > submitted[i].at + FlushInterval + PollInterval

\* C23 (no insert after the connection is closed): once close() has closed
\* the store client, no step issues a further insert_many call.
C23_NoInsertAfterClose ==
    [][client = "closed" => Len(inserts') = Len(inserts)]_vars

\* C24 (batch size bounds): every batch handed to _flush_batch and every
\* batch passed to insert_many holds at least one and at most batch_size
\* records, and the working buffer is below batch_size whenever the worker
\* is not in a flush.
C24_BatchSizeBounds ==
    /\ \A i \in 1..Len(inserts) :
          Len(inserts[i].batch) >= 1 /\ Len(inserts[i].batch) <= batch_size
    /\ \A i \in 1..Len(flushCalls) :
          Len(flushCalls[i]) >= 1 /\ Len(flushCalls[i]) <= batch_size
    /\ Len(Unflushed) < batch_size

\* Both bounds are met: a batch of batch_size records (size trigger) and a
\* batch of one record (time trigger) have been inserted.
C24_Witness ==
    /\ batch_size >= 2
    /\ \E i, j \in 1..Len(inserts) :
          /\ Len(inserts[i].batch) = batch_size
          /\ Len(inserts[j].batch) = 1
    /\ wpc = "done"

\* The sum of the counts of a per-service mapping, over the services in ss.
RECURSIVE SumCounts(_, _)
SumCounts(counts, ss) ==
    IF ss = {} THEN 0
    ELSE LET s == CHOOSE x \in ss : TRUE
         IN  counts[s] + SumCounts(counts, ss \ {s})

\* C25 (stats describe one snapshot): in every result of get_stats, also
\* with writes to the collection between its reads, the error count does not
\* exceed the total and the per-service counts sum to the total.
C25_StatsSnapshot ==
    \A i \in 1..Len(stats_calls) :
        LET v == stats_calls[i].value IN
        /\ v.error_logs <= v.total_logs
        /\ SumCounts(v.service_counts, DOMAIN v.service_counts) = v.total_logs

\* What get_stats returns when not connected (lines 107-111).
EmptyStats == [total_logs |-> 0, error_logs |-> 0, service_counts |-> <<>>]

\* C26 (disconnected reads are empty): when the connection was not
\* established at construction, get_logs and get_error_trend return no rows
\* (and the trend has no groups), get_stats returns zeros and an empty
\* mapping at once, get_log_by_id returns no record, and no call on the
\* collection has been issued.
C26_DisconnectedReads ==
    ~connected =>
        /\ reply.op \in {"get_logs", "get_error_trend"} => reply.value = <<>>
        /\ reply.op = "get_error_trend" => DOMAIN reply.counts = {}
        /\ stats_run = StatsIdle
        /\ \A i \in 1..Len(stats_calls) : stats_calls[i].value = EmptyStats
        /\ \A c \in lookups : c.value = <<>>
        /\ reads = 0

\* Not connected, the store holds an ERROR record, get_stats has returned
\* and so has a get_logs call without filters and without limit.
C26_Witness ==
    /\ ~connected
    /\ \E i \in 1..Len(collection) : collection[i].level = "ERROR"
    /\ Len(stats_calls) >= 1
    /\ reply.op = "get_logs"
    /\ reply.args = [limit |-> 0, service |-> "All", level |-> "", start_time |-> <<>>,
                     end_time |-> <<>>, search_text |-> <<>>]

====
